---------------------------- MODULE Spec2Model ----------------------------
(***************************************************************************)
(* Playback state machine of the convergence-benchmark game viewer         *)
(* (src/app/src/App.tsx: types, getRounds, GameViewer).                    *)
(*                                                                         *)
(* A GameViewer owns one piece of React state, currentRound.  Every render *)
(* derives rounds, isPlaying, visibleRounds, the timeline messages and the *)
(* disabled flags of the four buttons from the game record and             *)
(* currentRound, and creates the four handlers as closures over the values *)
(* of that render.  A button event runs its handler against the closure of *)
(* the last render and React re-renders the viewer before the next event.  *)
(***************************************************************************)
EXTENDS Integers, Sequences, FiniteSets, TLC

(***************************************************************************)
(* Input space: the game records a viewer is given.                        *)
(***************************************************************************)

\* Longest word list of a game record.
MaxLen == 2

\* `converged_word: string | null` -- the null value.
NULL == "null"

\* What indexing an array past its end yields.
UNDEFINED == "undefined"

Outcomes == {"win", "non_convergence", "repetition", "invalid_word"}

\* Words player 1 and player 2 may have said; "sand" is the one they share.
Player1Words == {"beach", "sand"}
Player2Words == {"island", "sand"}

\* Values of the record's `rounds` count and of `converged_word`.
RoundCounts == {2, 3}
ConvergedWords == {NULL, "sand"}

SeqsUpTo(S, n) == UNION {[1..k -> S] : k \in 0..n}

\* The fields of GameResult the viewer's logic reads (the model names, seed
\* words, game number and timestamp are only printed).
GameResult ==
    [outcome : Outcomes,
     rounds : RoundCounts,
     converged_word : ConvergedWords,
     player1_words : SeqsUpTo(Player1Words, MaxLen),
     player2_words : SeqsUpTo(Player2Words, MaxLen)]

sampleGame ==
    [outcome |-> "win",
     rounds |-> 2,
     converged_word |-> "sand",
     player1_words |-> <<"beach", "sand">>,
     player2_words |-> <<"island", "sand">>]

(***************************************************************************)
(* Pure helpers.                                                           *)
(***************************************************************************)

At_oneBased(arr, i) == IF i \in 1..Len(arr) THEN arr[i] ELSE UNDEFINED

\* arr[i] with a 0-based index: the element, or undefined past the end.
At(arr, i) == IF i + 1 \in 1..Len(arr) THEN arr[i + 1] ELSE UNDEFINED

\* Array.prototype.slice(start, end): negative indices count from the end,
\* both are clamped to the array, an empty range yields the empty array.
SliceIndex(len, k) ==
    IF k < 0 THEN (IF len + k < 0 THEN 0 ELSE len + k)
    ELSE IF k > len THEN len ELSE k

slice_inclusiveEnd(arr, start, end) ==
    LET from == SliceIndex(Len(arr), start)
        to == SliceIndex(Len(arr), end + 1)
    IN  IF from < to THEN SubSeq(arr, from + 1, to) ELSE <<>>

slice(arr, start, end) ==
    LET from == SliceIndex(Len(arr), start)
        to == SliceIndex(Len(arr), end)
    IN  IF from < to THEN SubSeq(arr, from + 1, to) ELSE <<>>

Round_zeroBased(game, i) ==
    [number |-> i,
     player1_word |-> At(game.player1_words, i),
     player2_word |-> At(game.player2_words, i),
     converged |-> At(game.player1_words, i) = At(game.player2_words, i)]

\* The Round pushed by iteration i of the loop in getRounds.
Round(game, i) ==
    [number |-> i + 1,
     player1_word |-> At(game.player1_words, i),
     player2_word |-> At(game.player2_words, i),
     converged |-> At(game.player1_words, i) = At(game.player2_words, i)]

\* The loop bounded by player 2's list instead of player 1's.
RECURSIVE getRoundsLoop_player2(_, _, _)
getRoundsLoop_player2(game, i, rounds) ==
    IF i < Len(game.player2_words)
    THEN getRoundsLoop_player2(game, i + 1, Append(rounds, Round(game, i)))
    ELSE rounds

RECURSIVE getRoundsLoop(_, _, _)
getRoundsLoop(game, i, rounds) ==
    IF i < Len(game.player1_words)
    THEN getRoundsLoop(game, i + 1, Append(rounds, Round(game, i)))
    ELSE rounds

getRounds(game) == getRoundsLoop(game, 0, <<>>)

(***************************************************************************)
(* One render of GameViewer: everything the component derives from its     *)
(* props and state.                                                        *)
(***************************************************************************)

\* The elements the timeline shows after the visible rounds, in document
\* order: the start prompt, the success result, the failure result.
startPrompt(isPlaying) ==
    IF ~isPlaying THEN <<[className |-> "start-prompt"]>> ELSE <<>>

resultSuccess(game, currentRound, rounds) ==
    IF currentRound = Len(rounds) /\ game.outcome = "win"
    THEN <<[className |-> "result success",
            converged_word |-> game.converged_word,
            rounds |-> game.rounds]>>
    ELSE <<>>

resultFailure_anyOutcome(game, currentRound, rounds) ==
    IF currentRound = Len(rounds)
    THEN <<[className |-> "result failure", outcome |-> game.outcome]>>
    ELSE <<>>

resultFailure(game, currentRound, rounds) ==
    IF currentRound = Len(rounds) /\ game.outcome # "win"
    THEN <<[className |-> "result failure", outcome |-> game.outcome]>>
    ELSE <<>>

controls_strict(currentRound, rounds) ==
    [reset |-> currentRound = 0,
     stepBackward |-> currentRound = 0,
     stepForward |-> currentRound > Len(rounds),
     playAll |-> currentRound > Len(rounds)]

\* The disabled attribute of the four buttons.
controls(currentRound, rounds) ==
    [reset |-> currentRound = 0,
     stepBackward |-> currentRound = 0,
     stepForward |-> currentRound >= Len(rounds),
     playAll |-> currentRound >= Len(rounds)]

GameViewer(game, currentRound) ==
    LET rounds == getRounds(game)
        isPlaying == currentRound > 0
    IN  [currentRound |-> currentRound,
         rounds |-> rounds,
         isPlaying |-> isPlaying,
         visibleRounds |-> slice(rounds, 0, currentRound),
         notices |-> startPrompt(isPlaying)
                       \o resultSuccess(game, currentRound, rounds)
                       \o resultFailure(game, currentRound, rounds),
         disabled |-> controls(currentRound, rounds)]

(***************************************************************************)
(* State.                                                                  *)
(***************************************************************************)

VARIABLES
    game,          \* the `game` prop: the record being viewed
    currentRound,  \* viewer -> its useState value (the cursor)
    view,          \* viewer -> its last render, which the handlers close over
    hist,          \* the last two handled events, oldest first
    fwdRun         \* viewer -> the stepForward events handled in a row

vars == <<game, currentRound, view, hist, fwdRun>>

\* App mounts one GameViewer.
Mounted == {1}

Viewers == DOMAIN currentRound

(***************************************************************************)
(* The four handlers: the value currentRound has once the handler, run     *)
(* against the closure of viewer v's last render, has returned.            *)
(***************************************************************************)

\* Variants of the handlers and helpers with one plausible slip each, used to
\* show that the properties below depend on the code as written.
stepForward_noGuard(v) == view[v].currentRound + 1

stepForward_wrap(v) ==
    IF view[v].currentRound < Len(view[v].rounds)
    THEN view[v].currentRound + 1
    ELSE 0

\* stepForward written with an updater, setCurrentRound(c => ...), which
\* reads the queued value instead of the rendered one.
stepForward_updater(v) ==
    IF currentRound[v] < Len(view[v].rounds)
    THEN currentRound[v] + 1
    ELSE currentRound[v]

\* stepForward stopping one short of the last round.
stepForward_stopsShort(v) ==
    IF view[v].currentRound < Len(view[v].rounds) - 1
    THEN view[v].currentRound + 1
    ELSE currentRound[v]

stepBackward_noGuard(v) == view[v].currentRound - 1

stepBackward_asReset(v) == 0

stepBackward_offByOne(v) ==
    IF view[v].currentRound > 1
    THEN view[v].currentRound - 1
    ELSE currentRound[v]

playAll_lastIndex(v) == Len(view[v].rounds) - 1

playAll_player2Length(v) == Len(game.player2_words)

stepForward(v) ==
    IF view[v].currentRound < Len(view[v].rounds)
    THEN view[v].currentRound + 1
    ELSE currentRound[v]

stepBackward(v) ==
    IF view[v].currentRound > 0
    THEN view[v].currentRound - 1
    ELSE currentRound[v]

reset(v) == 0

playAll(v) == Len(view[v].rounds)

(***************************************************************************)
(* Event log kept for the properties: hist holds the last two events,      *)
(* fwdRun[v] the cursor at which the current run of consecutive            *)
(* stepForward events of v began and how many there were, counted up to    *)
(* one more than the number of rounds.                                     *)
(***************************************************************************)

Logged(v, op, next) ==
    LET e == [v |-> v, op |-> op, before |-> currentRound[v], after |-> next]
    IN  IF Len(hist) < 2 THEN Append(hist, e) ELSE <<hist[2], e>>

Run(v, op, next) ==
    IF op = "stepForward"
    THEN [start |-> fwdRun[v].start,
          count |-> IF fwdRun[v].count <= Len(view[v].rounds)
                    THEN fwdRun[v].count + 1
                    ELSE fwdRun[v].count]
    ELSE [start |-> next, count |-> 0]

(***************************************************************************)
(* Transitions: a button event on viewer v runs the handler and React      *)
(* re-renders v with the new state.  A handler is modelled as callable     *)
(* whatever its button's disabled attribute says: the attribute only       *)
(* withholds events whose handler would change nothing.                    *)
(***************************************************************************)

\* A render that consumes the record's word list (as a getRounds written with
\* shift() would).
Handle_consuming(v, op, next) ==
    /\ currentRound' = [currentRound EXCEPT ![v] = next]
    /\ game' = [game EXCEPT !.player1_words =
                    IF Len(@) > 0 THEN Tail(@) ELSE @]
    /\ view' = [view EXCEPT ![v] = GameViewer(game', next)]
    /\ hist' = Logged(v, op, next)
    /\ fwdRun' = [fwdRun EXCEPT ![v] = Run(v, op, next)]

\* The cursor kept in one cell shared by all viewers (module-level state
\* instead of useState).
Handle_shared(v, op, next) ==
    /\ currentRound' = [w \in Viewers |-> next]
    /\ view' = [w \in Viewers |-> GameViewer(game, next)]
    /\ hist' = Logged(v, op, next)
    /\ fwdRun' = [fwdRun EXCEPT ![v] = Run(v, op, next)]
    /\ UNCHANGED game

Handle(v, op, next) ==
    /\ currentRound' = [currentRound EXCEPT ![v] = next]
    /\ view' = [view EXCEPT ![v] = GameViewer(game, next)]
    /\ hist' = Logged(v, op, next)
    /\ fwdRun' = [fwdRun EXCEPT ![v] = Run(v, op, next)]
    /\ UNCHANGED game

ClickStep(v) == Handle(v, "stepForward", stepForward(v))

ClickBack(v) == Handle(v, "stepBackward", stepBackward(v))

ClickReset(v) == Handle(v, "reset", reset(v))

ClickPlayAll(v) == Handle(v, "playAll", playAll(v))

Mount(g, viewers) ==
    /\ game = g
    /\ currentRound = [v \in viewers |-> 0]
    /\ view = [v \in viewers |-> GameViewer(g, 0)]
    /\ hist = <<>>
    /\ fwdRun = [v \in viewers |-> [start |-> 0, count |-> 0]]

Init == \E g \in GameResult : Mount(g, Mounted)

Next ==
    \/ \E v \in Viewers : ClickStep(v)
    \/ \E v \in Viewers : ClickBack(v)
    \/ \E v \in Viewers : ClickReset(v)
    \/ \E v \in Viewers : ClickPlayAll(v)

Spec == Init /\ [][Next]_vars

\* Number of derived rounds of viewer v's game.
N(v) == Len(view[v].rounds)

TypeOK ==
    /\ game \in GameResult
    /\ \A v \in Viewers : currentRound[v] \in Int
    /\ Len(hist) <= 2

(***************************************************************************)
(* Properties.                                                             *)
(***************************************************************************)

\* The most recent event, and the pair of the two most recent events of one
\* viewer being stepForward followed by stepBackward.
Last == hist[Len(hist)]

PairHandled ==
    /\ Len(hist) = 2
    /\ hist[1].v = hist[2].v
    /\ hist[1].op = "stepForward"
    /\ hist[2].op = "stepBackward"

\* C1: whatever sequence of stepForward, stepBackward, reset and playAll
\* events has been handled since mounting at 0, the cursor is an integer
\* with 0 <= cursor <= N.
C1_CursorInRange ==
    \A v \in Viewers :
        /\ currentRound[v] \in Int
        /\ 0 <= currentRound[v]
        /\ currentRound[v] <= N(v)

\* A stepForward at the upper end followed by a stepBackward, on a game of
\* at least two rounds.
C1_Witness ==
    /\ PairHandled
    /\ N(Last.v) >= 2
    /\ hist[1].before = N(Last.v)
    /\ currentRound[Last.v] = N(Last.v) - 1

\* C2: a stepForward event moves the cursor from c to c + 1 when c < N and
\* leaves it at c when c = N; after N stepForward events in a row from 0
\* the cursor is N, and after one more it is still N.
C2_StepForward ==
    /\ \A i \in 1..Len(hist) :
           hist[i].op = "stepForward" =>
               hist[i].after = IF hist[i].before < N(hist[i].v)
                               THEN hist[i].before + 1
                               ELSE hist[i].before
    /\ Len(hist) > 0 /\ Last.op = "stepForward" =>
           currentRound[Last.v] = Last.after
    /\ \A v \in Viewers :
           fwdRun[v].start = 0 /\ fwdRun[v].count >= N(v) =>
               currentRound[v] = N(v)

\* N + 1 stepForward events in a row from 0 on a game of at least two
\* rounds: the last one found the cursor at N.
C2_Witness ==
    \E v \in Viewers :
        /\ N(v) >= 2
        /\ fwdRun[v] = [start |-> 0, count |-> N(v) + 1]
        /\ Last = [v |-> v, op |-> "stepForward",
                   before |-> N(v), after |-> N(v)]
        /\ currentRound[v] = N(v)

\* C3: a stepBackward event moves the cursor from c to c - 1 when c > 0
\* and leaves it at 0, never negative, when c = 0.
C3_StepBackward ==
    /\ \A i \in 1..Len(hist) :
           hist[i].op = "stepBackward" =>
               /\ hist[i].after = IF hist[i].before > 0
                                  THEN hist[i].before - 1
                                  ELSE hist[i].before
               /\ hist[i].after >= 0
    /\ Len(hist) > 0 /\ Last.op = "stepBackward" =>
           currentRound[Last.v] = Last.after

\* A stepBackward from 1 to 0 followed by a stepBackward at 0.
C3_Witness ==
    /\ Len(hist) = 2
    /\ hist[1] = [v |-> Last.v, op |-> "stepBackward", before |-> 1, after |-> 0]
    /\ hist[2] = [v |-> Last.v, op |-> "stepBackward", before |-> 0, after |-> 0]
    /\ currentRound[Last.v] = 0

\* C4: a reset event leaves the cursor at 0 and a playAll event leaves it
\* at N, whatever the cursor was before.
C4_ResetPlayAll ==
    /\ \A i \in 1..Len(hist) :
           /\ hist[i].op = "reset" => hist[i].after = 0
           /\ hist[i].op = "playAll" => hist[i].after = N(hist[i].v)
    /\ Len(hist) > 0 /\ Last.op \in {"reset", "playAll"} =>
           currentRound[Last.v] = Last.after

\* A playAll handled in the interior of a game, followed by a reset at N.
C4_Witness ==
    /\ Len(hist) = 2
    /\ hist[1].v = hist[2].v
    /\ hist[1].op = "playAll"
    /\ hist[1].before = 1
    /\ N(Last.v) >= 2
    /\ hist[2].op = "reset"
    /\ hist[2].before = N(Last.v)
    /\ currentRound[Last.v] = 0

\* C5: from an interior cursor c, 0 < c < N, stepForward followed by
\* stepBackward leaves the cursor at c.
C5_RoundTrip ==
    PairHandled /\ 0 < hist[1].before /\ hist[1].before < N(Last.v) =>
        currentRound[Last.v] = hist[1].before

\* The pair handled from an interior cursor.
C5_Witness ==
    /\ PairHandled
    /\ 0 < hist[1].before
    /\ hist[1].before < N(Last.v)
    /\ hist[1].after = hist[1].before + 1
    /\ currentRound[Last.v] = hist[1].before

\* C6 as stated: at cursor = 0 and at cursor = N, stepForward followed by
\* stepBackward leaves the cursor where it was (so that handling the pair
\* again, from the same cursor, leaves it there too).
C6_Original ==
    PairHandled /\ hist[1].before \in {0, N(Last.v)} =>
        currentRound[Last.v] = hist[1].before

\* C6 amended: at cursor = 0 the pair leaves the cursor at 0; at cursor = N
\* with N > 0 the pair moves the cursor to N - 1; and from N - 1, where the
\* pair leaves it, the pair handled again leaves the cursor at N - 1.
C6_BoundaryPair ==
    PairHandled =>
        LET b == hist[1].before
            n == N(Last.v)
            c == currentRound[Last.v]
        IN  /\ b = 0 => c = 0
            /\ b = n /\ n > 0 => c = n - 1
            /\ b = n - 1 /\ n > 0 => c = n - 1

\* The pair handled at the upper end of a game of at least two rounds.
C6_Witness ==
    /\ PairHandled
    /\ N(Last.v) >= 2
    /\ hist[1].before = N(Last.v)
    /\ hist[1].after = N(Last.v)
    /\ hist[2].after = N(Last.v) - 1
    /\ currentRound[Last.v] = N(Last.v) - 1

\* The result elements among the notices of a render.
IsResult(e) == e.className \in {"result success", "result failure"}

Results(v) == SelectSeq(view[v].notices, IsResult)

\* C7: the visible rounds are the first `cursor` derived rounds, in order:
\* as many as the cursor says, the i-th being round i, none numbered past
\* the cursor.
C7_VisiblePrefix ==
    \A v \in Viewers :
        LET shown == view[v].visibleRounds
            derived == getRounds(game)
        IN  /\ Len(shown) = currentRound[v]
            /\ \A i \in 1..Len(shown) :
                   /\ i <= Len(derived)
                   /\ shown[i] = derived[i]
                   /\ shown[i].number = i
                   /\ shown[i].number <= currentRound[v]

\* A proper, non-empty prefix is visible after a stepBackward.
C7_Witness ==
    /\ Len(hist) > 0
    /\ Last.op = "stepBackward"
    /\ 0 < currentRound[Last.v]
    /\ currentRound[Last.v] < N(Last.v)
    /\ Len(view[Last.v].visibleRounds) = currentRound[Last.v]

\* C8: for a record whose word lists both have length L, the derived rounds
\* are L rounds, the k-th numbered k and carrying the k-th word of each
\* player, converged exactly when the two words are equal.
C8_DerivedRounds ==
    Len(game.player1_words) = Len(game.player2_words) =>
        \A v \in Viewers :
            LET rounds == view[v].rounds
            IN  /\ Len(rounds) = Len(game.player1_words)
                /\ \A k \in 1..Len(rounds) :
                       /\ rounds[k].number = k
                       /\ rounds[k].player1_word = game.player1_words[k]
                       /\ rounds[k].player2_word = game.player2_words[k]
                       /\ rounds[k].converged =
                              (game.player1_words[k] = game.player2_words[k])

\* A record of two rounds, one where the words differ and one where they
\* agree, rendered again after an event.
C8_Witness ==
    /\ Len(hist) > 0
    /\ Len(game.player1_words) = 2
    /\ Len(game.player2_words) = 2
    /\ \E j, k \in 1..2 :
           /\ ~view[Last.v].rounds[j].converged
           /\ view[Last.v].rounds[k].converged

\* C9: each button is disabled exactly when its handler would leave the
\* cursor where it is: Reset and Back exactly at cursor = 0, Step and
\* Play All exactly at cursor = N, for games of any length, 0 included.
C9_DisabledIffNoOp ==
    \A v \in Viewers :
        LET d == view[v].disabled
            c == currentRound[v]
        IN  /\ d.reset = (reset(v) = c)
            /\ d.stepBackward = (stepBackward(v) = c)
            /\ d.stepForward = (stepForward(v) = c)
            /\ d.playAll = (playAll(v) = c)
            /\ d.reset = (c = 0)
            /\ d.stepBackward = (c = 0)
            /\ d.stepForward = (c = N(v))
            /\ d.playAll = (c = N(v))

\* After a playAll on a game of at least two rounds Step and Play All are
\* disabled and Reset and Back are not.
C9_Witness ==
    /\ Len(hist) > 0
    /\ Last.op = "playAll"
    /\ N(Last.v) >= 2
    /\ view[Last.v].disabled =
           [reset |-> FALSE, stepBackward |-> FALSE,
            stepForward |-> TRUE, playAll |-> TRUE]

\* C10: a result message is shown exactly when cursor = N, and then it is
\* one message: the success message with the record's converged word and
\* rounds count when the outcome is win, otherwise the failure message with
\* the outcome.
C10_CompletionMessage ==
    \A v \in Viewers :
        /\ (Results(v) # <<>>) = (currentRound[v] = N(v))
        /\ currentRound[v] = N(v) =>
               Results(v) =
                   <<IF game.outcome = "win"
                     THEN [className |-> "result success",
                           converged_word |-> game.converged_word,
                           rounds |-> game.rounds]
                     ELSE [className |-> "result failure",
                           outcome |-> game.outcome]>>

\* A non_convergence record with no matching pair, played to the end: the
\* failure message is the one result shown.
C10_Witness ==
    /\ Len(hist) > 0
    /\ Last.op = "playAll"
    /\ game.outcome = "non_convergence"
    /\ N(Last.v) >= 2
    /\ Len(game.player2_words) = N(Last.v)
    /\ \A k \in 1..N(Last.v) : ~view[Last.v].rounds[k].converged
    /\ Results(Last.v) =
           <<[className |-> "result failure", outcome |-> "non_convergence"]>>

\* The start prompt among the notices of a render.
IsStartPrompt(e) == e.className = "start-prompt"

StartPromptShown(v) == SelectSeq(view[v].notices, IsStartPrompt) # <<>>

\* C11: the start prompt is shown exactly when the viewer is not complete
\* and its cursor is 0; in a complete state (cursor = N), the empty game
\* with cursor = 0 = N included, only the result message is shown and the
\* start prompt is not.
C11_StartPromptOnlyIfIncomplete ==
    \A v \in Viewers :
        /\ StartPromptShown(v) =
               (currentRound[v] # N(v) /\ currentRound[v] = 0)
        /\ currentRound[v] = N(v) =>
               /\ ~StartPromptShown(v)
               /\ Len(view[v].notices) = 1
               /\ IsResult(view[v].notices[1])

\* C12: for the sample record, playAll from the initial state shows exactly
\* two rounds, round 1 (beach, island) not converged and round 2
\* (sand, sand) converged, and the success message with word "sand" and 2
\* rounds.
C12_SamplePlayAll ==
    game = sampleGame /\ Len(hist) = 1 /\ Last.op = "playAll" =>
        LET v == Last.v
        IN  /\ Last.before = 0
            /\ currentRound[v] = 2
            /\ view[v].visibleRounds =
                   <<[number |-> 1, player1_word |-> "beach",
                      player2_word |-> "island", converged |-> FALSE],
                     [number |-> 2, player1_word |-> "sand",
                      player2_word |-> "sand", converged |-> TRUE]>>
            /\ Results(v) =
                   <<[className |-> "result success",
                      converged_word |-> "sand", rounds |-> 2]>>
            /\ ~StartPromptShown(v)

\* The sample record right after a playAll handled in the initial state.
C12_Witness ==
    /\ game = sampleGame
    /\ hist = <<[v |-> 1, op |-> "playAll", before |-> 0, after |-> 2]>>
    /\ Len(view[1].visibleRounds) = 2

\* C13: from any cursor c, playAll leaves the cursor where stepForward
\* events repeated from c until they change nothing leave it: the run needs
\* N - c events, each of the first N - c moving the cursor by one, and ends
\* at the value playAll sets.
C13_PlayAllIsRepeatedStep ==
    /\ \A v \in Viewers :
           LET c == fwdRun[v].start
               k == fwdRun[v].count
           IN  /\ k < N(v) - c =>
                      /\ currentRound[v] = c + k
                      /\ stepForward(v) # currentRound[v]
               /\ k >= N(v) - c =>
                      /\ currentRound[v] = playAll(v)
                      /\ stepForward(v) = currentRound[v]
    /\ \A i \in 1..Len(hist) :
           hist[i].op = "playAll" => hist[i].after = playAll(hist[i].v)

\* A run of exactly N - c stepForward events begun at an interior cursor c
\* that a stepBackward had left.
C13_Witness ==
    /\ Len(hist) = 2
    /\ hist[1].op = "stepBackward"
    /\ hist[2].op = "stepForward"
    /\ hist[1].v = hist[2].v
    /\ 0 < fwdRun[Last.v].start
    /\ fwdRun[Last.v].start < N(Last.v)
    /\ fwdRun[Last.v].count = N(Last.v) - fwdRun[Last.v].start
    /\ currentRound[Last.v] = N(Last.v)

\* What C14 says of a viewer v whose cursor is N: stepForward changes
\* nothing, Reset and Back are enabled, and reset and stepBackward each
\* leave a cursor other than N.
LeavesTerminal(v) ==
    /\ stepForward(v) = currentRound[v]
    /\ ~view[v].disabled.reset
    /\ ~view[v].disabled.stepBackward
    /\ reset(v) # N(v)
    /\ stepBackward(v) # N(v)

\* C14 as stated: in the state cursor = N, for a game of any size, the
\* above holds.
C14_Original ==
    \A v \in Viewers : currentRound[v] = N(v) => LeavesTerminal(v)

\* C14 amended: the above holds in the state cursor = N of every game with
\* N > 0, and the events handled there behave so; in the empty game, where
\* cursor = 0 = N is the only state, Reset and Back are disabled and no
\* event leaves it.
C14_Terminal ==
    /\ \A v \in Viewers :
           currentRound[v] = N(v) =>
               IF N(v) > 0
               THEN LeavesTerminal(v)
               ELSE /\ view[v].disabled.reset
                    /\ view[v].disabled.stepBackward
                    /\ reset(v) = N(v)
                    /\ stepBackward(v) = N(v)
                    /\ stepForward(v) = N(v)
    /\ \A i \in 1..Len(hist) :
           LET e == hist[i]
           IN  e.before = N(e.v) =>
                   /\ e.op = "stepForward" => e.after = N(e.v)
                   /\ e.op \in {"reset", "stepBackward"} /\ N(e.v) > 0 =>
                          e.after # N(e.v)

\* A stepForward handled at cursor = N, then a reset that leaves it.
C14_Witness ==
    /\ Len(hist) = 2
    /\ hist[1].v = hist[2].v
    /\ N(Last.v) >= 2
    /\ hist[1] = [v |-> Last.v, op |-> "stepForward",
                  before |-> N(Last.v), after |-> N(Last.v)]
    /\ hist[2] = [v |-> Last.v, op |-> "reset",
                  before |-> N(Last.v), after |-> 0]

\* The records of every pair of word lists, lists of different lengths
\* included, with the rounds count and converged word of the sample record
\* and one outcome of each kind (win, not win): the fields no handler and no
\* derivation of rounds reads are held fixed.
WordGames ==
    {g \in GameResult :
        /\ g.rounds = sampleGame.rounds
        /\ g.converged_word = sampleGame.converged_word
        /\ g.outcome \in {"win", "non_convergence"}}

InitWords == \E g \in WordGames : Mount(g, Mounted)

SpecWords == InitWords /\ [][Next]_vars

\* C15: each of the four events can be handled in every state (there is no
\* state in which a handler fails), and handling one changes the cursor
\* only: the game record is the same before and after, the rounds derived
\* by the render after the event are those of the render before it and
\* those getRounds yields for the record, and the rest of the render is the
\* one the record and the new cursor determine.
C15_TotalAndFramed ==
    /\ [](\A v \in Viewers :
              /\ ENABLED ClickStep(v)
              /\ ENABLED ClickBack(v)
              /\ ENABLED ClickReset(v)
              /\ ENABLED ClickPlayAll(v))
    /\ [][/\ game' = game
          /\ DOMAIN currentRound' = DOMAIN currentRound
          /\ \A v \in Viewers :
                 /\ view'[v].rounds = view[v].rounds
                 /\ view'[v].rounds = getRounds(game)
                 /\ view'[v] = GameViewer(game, currentRound'[v])]_vars

\* A playAll and a stepBackward handled on a two-round record, whose
\* render still carries the rounds of the record.
C15_Witness ==
    /\ Len(hist) = 2
    /\ hist[1].op = "playAll"
    /\ hist[2].op = "stepBackward"
    /\ Len(game.player1_words) = 2
    /\ currentRound[Last.v] = 1
    /\ view[Last.v].rounds = getRounds(game)

(***************************************************************************)
(* Several viewers mounted at once, each a GameViewer with its own         *)
(* useState cell, all given the same record.                               *)
(***************************************************************************)

\* How many viewers are mounted together.
NumViewers == 2

\* One record of each length, shaped like the sample: its last round is
\* (sand, sand), the rounds before it are (beach, island), the outcome is win.
ReplayGames ==
    {g \in WordGames :
        /\ g.outcome = sampleGame.outcome
        /\ Len(g.player1_words) = Len(g.player2_words)
        /\ \A i \in 1..Len(g.player1_words) :
               /\ (g.player1_words[i] = "sand") = (i = Len(g.player1_words))
               /\ (g.player2_words[i] = "sand") = (i = Len(g.player1_words))}

InitViewers == \E g \in ReplayGames : Mount(g, 1..NumViewers)

SpecViewers == InitViewers /\ [][Next]_vars

\* C16: an event handled by one viewer sets that viewer's cursor and
\* leaves the cursor and the render (visible rounds, result message, start
\* prompt, disabled flags) of every other viewer as they were, whatever the
\* order in which the viewers' events arrive.
C16_ViewersIndependent ==
    [][LET e == hist'[Len(hist')]
       IN  /\ currentRound'[e.v] = e.after
           /\ \A w \in Viewers \ {e.v} :
                  /\ currentRound'[w] = currentRound[w]
                  /\ view'[w] = view[w]]_vars

\* Viewer 1 played to the end, then viewer 2 stepped once: their cursors
\* and completion differ.
C16_Witness ==
    /\ Viewers = {1, 2}
    /\ Len(hist) = 2
    /\ hist[1].v = 1 /\ hist[1].op = "playAll"
    /\ hist[2].v = 2 /\ hist[2].op = "stepForward"
    /\ N(1) >= 2
    /\ currentRound[1] = N(1)
    /\ currentRound[2] = 1
    /\ Results(1) # <<>>
    /\ Results(2) = <<>>

(***************************************************************************)
(* Batched updates: handlers called several times before React re-renders. *)
(* setCurrentRound(x) queues x and the handlers of the last render stay in *)
(* use, so each call still reads the currentRound and rounds of that       *)
(* render; the re-render then takes the value queued last.  React skips    *)
(* the re-render when the queued value is the rendered one.                *)
(***************************************************************************)

Queue(v, op, next) ==
    /\ currentRound' = [currentRound EXCEPT ![v] = next]
    /\ hist' = Logged(v, op, next)
    /\ fwdRun' = [fwdRun EXCEPT ![v] = Run(v, op, next)]
    /\ UNCHANGED <<game, view>>

CallStep(v) == Queue(v, "stepForward", stepForward(v))

CallBack(v) == Queue(v, "stepBackward", stepBackward(v))

CallReset(v) == Queue(v, "reset", reset(v))

CallPlayAll(v) == Queue(v, "playAll", playAll(v))

Rerender(v) ==
    /\ currentRound[v] # view[v].currentRound
    /\ view' = [view EXCEPT ![v] = GameViewer(game, currentRound[v])]
    /\ hist' = Logged(v, "render", currentRound[v])
    /\ UNCHANGED <<game, currentRound, fwdRun>>

InitBatch == \E g \in ReplayGames : Mount(g, Mounted)

NextBatch ==
    \/ \E v \in Viewers : CallStep(v)
    \/ \E v \in Viewers : CallBack(v)
    \/ \E v \in Viewers : CallReset(v)
    \/ \E v \in Viewers : CallPlayAll(v)
    \/ \E v \in Viewers : Rerender(v)

SpecBatch == InitBatch /\ [][NextBatch]_vars

\* The cursor the transition `op` yields from cursor c on a game of n
\* rounds, and whether it is a change the handler queues (its guard passes).
Computes(op, c, n) ==
    CASE op = "stepForward" -> IF c < n THEN c + 1 ELSE c
      [] op = "stepBackward" -> IF c > 0 THEN c - 1 ELSE c
      [] op = "reset" -> 0
      [] op = "playAll" -> n

Queues(op, c, n) ==
    CASE op = "stepForward" -> c < n
      [] op = "stepBackward" -> c > 0
      [] op \in {"reset", "playAll"} -> TRUE

\* The cursor stays in 0..N, and two stepForward calls against one render
\* with cursor c < N leave it at c + 1.
BatchInRange ==
    \A v \in Viewers : 0 <= currentRound[v] /\ currentRound[v] <= N(v)

TwoStepsAdvanceOne ==
    /\ Len(hist) = 2
    /\ hist[1].v = hist[2].v
    /\ hist[1].op = "stepForward"
    /\ hist[2].op = "stepForward"
    /\ view[Last.v].currentRound < N(Last.v)
    => currentRound[Last.v] = view[Last.v].currentRound + 1

\* C17 as stated: with calls handled against one render of cursor c, the
\* cursor stays in 0..N and is, after each call, the value that call's
\* transition computes from c; two stepForward calls advance it by one.
C17_Original ==
    /\ BatchInRange
    /\ TwoStepsAdvanceOne
    /\ Len(hist) > 0 /\ Last.op # "render" =>
           currentRound[Last.v] =
               Computes(Last.op, view[Last.v].currentRound, N(Last.v))

\* C17 amended: the cursor stays in 0..N and two stepForward calls advance
\* it by one; after each call the cursor is the value the call computes
\* from c if the call's guard passes at c (reset and playAll always,
\* stepForward when c < N, stepBackward when c > 0), and otherwise the
\* value queued before the call: c itself right after a render, the value
\* of the call before it if that one's guard passed.
C17_LastQueuedWins ==
    /\ BatchInRange
    /\ TwoStepsAdvanceOne
    /\ Len(hist) > 0 /\ Last.op = "render" =>
           currentRound[Last.v] = view[Last.v].currentRound
    /\ Len(hist) > 0 /\ Last.op # "render" =>
           LET v == Last.v
               c == view[v].currentRound
           IN  IF Queues(Last.op, c, N(v))
               THEN currentRound[v] = Computes(Last.op, c, N(v))
               ELSE /\ currentRound[v] = Last.before
                    /\ Len(hist) = 1 => currentRound[v] = c
                    /\ Len(hist) = 2 /\ hist[1].v = v =>
                           IF hist[1].op = "render"
                           THEN currentRound[v] = c
                           ELSE Queues(hist[1].op, c, N(v)) =>
                                    currentRound[v] =
                                        Computes(hist[1].op, c, N(v))

\* Two stepForward calls against the first render of a game of at least
\* two rounds: the cursor is 1, not 2.
C17_Witness ==
    /\ Len(hist) = 2
    /\ hist[1] = [v |-> 1, op |-> "stepForward", before |-> 0, after |-> 1]
    /\ hist[2] = [v |-> 1, op |-> "stepForward", before |-> 1, after |-> 1]
    /\ view[1].currentRound = 0
    /\ N(1) >= 2
    /\ currentRound[1] = 1

\* C18: when the two word lists differ in length, the derived rounds are as
\* many as player 1 has words, not as many as player 2 has; a round past
\* the end of player 2's list has no player-2 word and is not converged,
\* the rounds before it carry the words at their index, and no round
\* carries a player-2 word from past the end of player 1's list.
C18_UnequalLengths ==
    Len(game.player1_words) # Len(game.player2_words) =>
        \A v \in Viewers :
            LET rounds == view[v].rounds
                len1 == Len(game.player1_words)
                len2 == Len(game.player2_words)
            IN  /\ Len(rounds) = len1
                /\ Len(rounds) # len2
                /\ \A k \in 1..Len(rounds) :
                       /\ rounds[k].number = k
                       /\ rounds[k].player1_word = game.player1_words[k]
                       /\ k > len2 =>
                              /\ rounds[k].player2_word = UNDEFINED
                              /\ ~rounds[k].converged
                       /\ k <= len2 =>
                              rounds[k].player2_word = game.player2_words[k]
                /\ \A j \in (len1 + 1)..len2 :
                       \A k \in 1..Len(rounds) : rounds[k].number # j

\* Player 1 has two words and player 2 one, the first round converged:
\* rendered after an event, with the second round lacking a player-2 word.
C18_Witness ==
    /\ Len(hist) > 0
    /\ game.player1_words = <<"sand", "sand">>
    /\ game.player2_words = <<"sand">>
    /\ Len(view[Last.v].rounds) = 2
    /\ view[Last.v].rounds[1].converged
    /\ view[Last.v].rounds[2].player2_word = UNDEFINED
    /\ ~view[Last.v].rounds[2].converged

(***************************************************************************)
(* Playback under a user who, whenever stepForward can be handled, does    *)
(* not withhold it forever.                                                *)
(***************************************************************************)

SpecSteps ==
    InitWords /\ [][Next]_vars /\ WF_vars(\E v \in Viewers : ClickStep(v))

Complete == \A v \in Viewers : currentRound[v] = N(v)

\* C19: the cursor values 0..N are strongly connected: in every state the
\* cursor can go one up by a stepForward unless it is N and one down by a
\* stepBackward unless it is 0 (and to 0 and to N directly, by reset and
\* playAll), so every value is reachable from every other and none is a
\* dead end; and once only stepForward events are handled, the complete
\* state cursor = N is reached and kept.
C19_StronglyConnected ==
    /\ [](\A v \in Viewers :
              LET c == currentRound[v]
              IN  /\ c < N(v) =>
                         ENABLED (ClickStep(v) /\ currentRound'[v] = c + 1)
                  /\ c > 0 =>
                         ENABLED (ClickBack(v) /\ currentRound'[v] = c - 1)
                  /\ ENABLED (ClickReset(v) /\ currentRound'[v] = 0)
                  /\ ENABLED (ClickPlayAll(v) /\ currentRound'[v] = N(v)))
    /\ <>[][\E v \in Viewers : ClickStep(v)]_vars => <>[]Complete

\* From the upper end of a game of at least two rounds down to 0 by a
\* reset and up again to the interior by a stepForward.
C19_Witness ==
    /\ Len(hist) = 2
    /\ hist[1].op = "reset"
    /\ hist[2].op = "stepForward"
    /\ hist[1].before >= 2
    /\ currentRound[Last.v] = 1
    /\ currentRound[Last.v] < N(Last.v)

=============================================================================
